---- MODULE Spec2Model ----
(***************************************************************************)
(* Indexer (src/indexer.py) and SearchEngine (src/search.py) of the        *)
(* Cranfield search engine, as a state machine.                            *)
(*                                                                         *)
(* The state is the Indexer object's fields.  A Python dict is a sequence  *)
(* of <<key, value>> pairs in insertion order (assigning to a key that is  *)
(* present keeps its position), because the order in which the ranking     *)
(* functions emit equal scores is the iteration order of these dicts.      *)
(*                                                                         *)
(* Python floats are fixed-point numbers with 16 fraction bits (One is     *)
(* 1.0); quotients whose only use is as an operand of further arithmetic   *)
(* are exact rationals [num, den].  math.log and math.sqrt are computed    *)
(* to that precision (the logarithm to about 5e-5).                        *)
(*                                                                         *)
(* The preprocessor is an external collaborator: add_document and the      *)
(* ranking functions take the token sequence preprocess() returns.         *)
(***************************************************************************)
EXTENDS Integers, Sequences, FiniteSets, TLC

\* ------------------------------------------------------------------ bounds
MaxAdds == 2
MaxLen == 2
MaxQueryLen == 2
MaxTopK == 2
MaxFinalize == 2
MaxQueries == 2

\* doc_ids in ascending (string) order, and the vocabulary
DocIdOrder == <<"d1", "d2">>
DocIds == {DocIdOrder[i] : i \in 1..Len(DocIdOrder)}
Terms == {"cat", "dog"}

SeqsUpTo(S, n) == UNION {[1..k -> S] : k \in 0..n}
TokenSeqs == SeqsUpTo(Terms, MaxLen)
Queries == SeqsUpTo(Terms, MaxQueryLen)
TopKs == 0..MaxTopK

\* ------------------------------------------------------------ Python dict
EmptyDict == <<>>

DictHas(d, k) == \E i \in 1..Len(d) : d[i][1] = k

DictGet(d, k, default) ==
    IF DictHas(d, k) THEN d[CHOOSE i \in 1..Len(d) : d[i][1] = k][2] ELSE default

DictPut(d, k, v) ==
    IF DictHas(d, k)
    THEN [i \in 1..Len(d) |-> IF d[i][1] = k THEN <<k, v>> ELSE d[i]]
    ELSE Append(d, <<k, v>>)

DictKeys(d) == [i \in 1..Len(d) |-> d[i][1]]

DictKeySet(d) == {d[i][1] : i \in 1..Len(d)}

RECURSIVE SumValues(_)
SumValues(d) == IF d = <<>> THEN 0 ELSE d[1][2] + SumValues(Tail(d))

\* --------------------------------------------------------------- numbers
One == 2 ^ 16

RECURSIVE GCD(_, _)
GCD(a, b) == IF b = 0 THEN a ELSE GCD(b, a % b)

\* the exact quotient n / d, d > 0, in lowest terms
Rat(n, d) == LET g == GCD(n, d) IN [num |-> n \div g, den |-> d \div g]

\* x * y of two non-negative fixed-point numbers
FMul(x, y) ==
    LET xh == x \div 256
        xl == x % 256
        yh == y \div 256
        yl == y % 256
    IN  xh * yh + (xh * yl + xl * yh) \div 256 + (xl * yl) \div One

RECURSIVE FracDiv(_, _, _)
FracDiv(r, b, n) ==
    IF n = 0 THEN 0
    ELSE IF 2 * r >= b THEN 2 ^ (n - 1) + FracDiv(2 * r - b, b, n - 1)
         ELSE FracDiv(2 * r, b, n - 1)

\* x / y of two non-negative fixed-point numbers, y > 0
FDiv(x, y) == (x \div y) * One + FracDiv(x % y, y, 16)

\* x * (n / d) of a fixed-point number and a non-negative rational
FMulRat(x, n, d) == (x \div d) * n + ((x % d) * n) \div d

\* c * c <= x as fixed-point numbers, i.e. c^2 <= x * 2^16, without overflow
SquareAtMost(c, x) ==
    LET ch == c \div 256
        cl == c % 256
        low == 512 * ch * cl + cl * cl
        dx == x - ch * ch
    IN  /\ dx >= 0
        /\ \/ low \div One < dx
           \/ low \div One = dx /\ low % One = 0

RECURSIVE SqrtIter(_, _, _)
SqrtIter(x, lo, hi) ==
    IF lo >= hi THEN lo
    ELSE LET mid == (lo + hi + 1) \div 2
         IN  IF SquareAtMost(mid, x) THEN SqrtIter(x, mid, hi)
             ELSE SqrtIter(x, lo, mid - 1)

\* math.sqrt of a fixed-point number x < 2^24: the largest c with c * c <= x
FSqrt(x) == SqrtIter(x, 0, 2 ^ 20 - 1)

RECURSIVE Log2Frac(_, _)
Log2Frac(m, i) ==
    IF i = 0 THEN 0
    ELSE LET h == m \div 1024
             l == m % 1024
             sq == h * h + (2 * h * l) \div 1024 + (l * l) \div 1048576
         IN  IF sq >= 2097152 THEN 2 ^ (i - 1) + Log2Frac(sq \div 2, i - 1)
             ELSE Log2Frac(sq, i - 1)

\* log2 of an integer x >= 1, fixed-point
Log2Fix(x) ==
    LET k == CHOOSE j \in 0..30 : 2 ^ j <= x /\ (j = 30 \/ x < 2 ^ (j + 1))
        m == IF k <= 20 THEN x * 2 ^ (20 - k) ELSE x \div 2 ^ (k - 20)
    IN  k * One + Log2Frac(m, 16)

\* ln of an integer x >= 1, fixed-point (ln 2 = 22713 / 32768)
LnInt(x) ==
    LET y == Log2Fix(x)
    IN  (y \div 32768) * 22713 + ((y % 32768) * 22713) \div 32768

\* math.log(n / d) for n, d >= 1, fixed-point
Ln(n, d) == LnInt(n) - LnInt(d)

\* ----------------------------------------------------------------- state
VARIABLES
    inverted_index,     \* term -> {doc_id -> term_freq}
    document_lengths,   \* doc_id -> number of tokens
    avg_doc_length,     \* a rational
    doc_count,
    document_vectors,   \* doc_id -> {term -> weight}
    document_norms,     \* doc_id -> norm
    ret,                \* the last call: its name and arguments
    add_calls,          \* history: number of add_document calls
    added_length,       \* history: sum of len(tokens) over the add_document calls
    last_tokens,        \* history: doc_id -> token sequence most recently added
    finalize_calls,     \* history: number of finalize_index calls
    finalized_adds,     \* history: add_calls at the last finalize_index call, or -1
    pc,                 \* main(): the statement the driver is at
    documents,          \* main(): the parsed documents not yet indexed
    queries,            \* main(): the parsed queries
    model_pos,          \* main(): position in the models list
    query_pos           \* main(): position in the queries list

index == <<inverted_index, document_lengths, avg_doc_length, doc_count,
           document_vectors, document_norms>>
history == <<add_calls, added_length, last_tokens, finalize_calls, finalized_adds>>
driver == <<pc, documents, queries, model_pos, query_pos>>
vars == <<index, ret, history, driver>>

Call(op, args) == [op |-> op, args |-> args]

\* --------------------------------------------------------------- Indexer
Init ==
    /\ inverted_index = EmptyDict
    /\ document_lengths = EmptyDict
    /\ avg_doc_length = Rat(0, 1)
    /\ doc_count = 0
    /\ document_vectors = EmptyDict
    /\ document_norms = EmptyDict
    /\ ret = Call("__init__", <<>>)
    /\ add_calls = 0
    /\ added_length = 0
    /\ last_tokens = EmptyDict
    /\ finalize_calls = 0
    /\ finalized_adds = -1

\* a count that starts at 0: term -> occurrences after the first
RECURSIVE CounterOfRepeats(_)
CounterOfRepeats(tokens) ==
    IF tokens = <<>> THEN EmptyDict
    ELSE LET rest == CounterOfRepeats(SubSeq(tokens, 1, Len(tokens) - 1))
             t == tokens[Len(tokens)]
         IN  DictPut(rest, t, IF DictHas(rest, t) THEN DictGet(rest, t, 0) + 1 ELSE 0)

\* Counter(tokens): term -> occurrences, in order of first occurrence
RECURSIVE CounterOf(_)
CounterOf(tokens) ==
    IF tokens = <<>> THEN EmptyDict
    ELSE LET rest == CounterOf(SubSeq(tokens, 1, Len(tokens) - 1))
             t == tokens[Len(tokens)]
         IN  DictPut(rest, t, DictGet(rest, t, 0) + 1)

\* an update that replaces the term's postings: inverted_index[term] = {doc_id: freq}
RECURSIVE UpdatePostingsReplacing(_, _, _)
UpdatePostingsReplacing(idx, term_freqs, doc_id) ==
    IF term_freqs = <<>> THEN idx
    ELSE UpdatePostingsReplacing(
             DictPut(idx, term_freqs[1][1], <<<<doc_id, term_freqs[1][2]>>>>),
             Tail(term_freqs), doc_id)

\* for term, freq in term_freqs.items(): inverted_index[term][doc_id] = freq
RECURSIVE UpdatePostings(_, _, _)
UpdatePostings(idx, term_freqs, doc_id) ==
    IF term_freqs = <<>> THEN idx
    ELSE LET term == term_freqs[1][1]
             freq == term_freqs[1][2]
             posting == DictGet(idx, term, EmptyDict)
         IN  UpdatePostings(DictPut(idx, term, DictPut(posting, doc_id, freq)),
                            Tail(term_freqs), doc_id)

\* a doc_count that counts distinct doc_ids instead of calls
NextDocCountDistinct(doc_id) ==
    IF DictHas(document_lengths, doc_id) THEN doc_count ELSE doc_count + 1

\* self.doc_count += 1
NextDocCount(doc_id) == doc_count + 1

AddDocument(doc_id, tokens) ==
    /\ add_calls < MaxAdds
    /\ document_lengths' = DictPut(document_lengths, doc_id, Len(tokens))
    /\ inverted_index' = UpdatePostings(inverted_index, CounterOf(tokens), doc_id)
    /\ doc_count' = NextDocCount(doc_id)
    /\ UNCHANGED <<avg_doc_length, document_vectors, document_norms>>
    /\ ret' = Call("add_document", <<doc_id, tokens>>)
    /\ add_calls' = add_calls + 1
    /\ added_length' = added_length + Len(tokens)
    /\ last_tokens' = DictPut(last_tokens, doc_id, tokens)
    /\ UNCHANGED <<finalize_calls, finalized_adds>>

\* idfs[term] = math.log(self.doc_count / df), for every term of the index
Idfs(idx, n) == [i \in 1..Len(idx) |-> <<idx[i][1], Ln(n, Len(idx[i][2]))>>]

\* the TF-IDF vector of doc_id: (1 + log(tf)) * idf for its terms, tf > 0
RECURSIVE BuildVector(_, _, _)
BuildVector(idx, idfs, doc_id) ==
    IF idfs = <<>> THEN EmptyDict
    ELSE LET term == idfs[Len(idfs)][1]
             idf == idfs[Len(idfs)][2]
             rest == BuildVector(idx, SubSeq(idfs, 1, Len(idfs) - 1), doc_id)
             posting == DictGet(idx, term, EmptyDict)
             tf == DictGet(posting, doc_id, 0)
         IN  IF DictHas(posting, doc_id) /\ tf > 0
             THEN DictPut(rest, term, FMul(One + Ln(tf, 1), idf))
             ELSE rest

RECURSIVE SumSquares(_)
SumSquares(vector) ==
    IF vector = <<>> THEN 0
    ELSE FMul(vector[1][2], vector[1][2]) + SumSquares(Tail(vector))

Norm(vector) == FSqrt(SumSquares(vector))

\* build_document_vectors: vectors and norms of the documents docs[1..k]
RECURSIVE BuildDocumentVectors(_, _, _, _)
BuildDocumentVectors(vn, idx, idfs, docs) ==
    IF docs = <<>> THEN vn
    ELSE LET doc_id == docs[1]
             vector == BuildVector(idx, idfs, doc_id)
         IN  BuildDocumentVectors(
                 [vectors |-> DictPut(vn.vectors, doc_id, vector),
                  norms |-> DictPut(vn.norms, doc_id, Norm(vector))],
                 idx, idfs, Tail(docs))

\* self.avg_doc_length = total_length / self.doc_count
AvgDocLength == Rat(SumValues(document_lengths), doc_count)

FinalizeIndex ==
    /\ finalize_calls < MaxFinalize
    /\ IF doc_count = 0
       THEN UNCHANGED <<avg_doc_length, document_vectors, document_norms>>
       ELSE LET vn == BuildDocumentVectors(
                          [vectors |-> document_vectors, norms |-> document_norms],
                          inverted_index, Idfs(inverted_index, doc_count),
                          DictKeys(document_lengths))
            IN  /\ avg_doc_length' = AvgDocLength
                /\ document_vectors' = vn.vectors
                /\ document_norms' = vn.norms
    /\ UNCHANGED <<inverted_index, document_lengths, doc_count>>
    /\ ret' = Call("finalize_index", <<>>)
    /\ finalize_calls' = finalize_calls + 1
    /\ finalized_adds' = add_calls
    /\ UNCHANGED <<add_calls, added_length, last_tokens>>

\* The same two methods on an Indexer given as a value, to build an index
\* from a list of documents.
NewIndexer ==
    [inverted_index |-> EmptyDict, document_lengths |-> EmptyDict,
     avg_doc_length |-> Rat(0, 1), doc_count |-> 0,
     document_vectors |-> EmptyDict, document_norms |-> EmptyDict]

AddedTo(ix, doc_id, tokens) ==
    [ix EXCEPT !.document_lengths = DictPut(@, doc_id, Len(tokens)),
               !.inverted_index = UpdatePostings(@, CounterOf(tokens), doc_id),
               !.doc_count = @ + 1]

FinalizedIndexer(ix) ==
    IF ix.doc_count = 0 THEN ix
    ELSE LET vn == BuildDocumentVectors(
                       [vectors |-> ix.document_vectors, norms |-> ix.document_norms],
                       ix.inverted_index, Idfs(ix.inverted_index, ix.doc_count),
                       DictKeys(ix.document_lengths))
         IN  [ix EXCEPT !.avg_doc_length =
                            Rat(SumValues(ix.document_lengths), ix.doc_count),
                        !.document_vectors = vn.vectors,
                        !.document_norms = vn.norms]

\* for doc in docs: add_document(doc_id, text)
RECURSIVE AddedAll(_, _)
AddedAll(ix, docs) ==
    IF docs = <<>> THEN ix
    ELSE AddedAll(AddedTo(ix, docs[1][1], docs[1][2]), Tail(docs))

BuildIndex(docs) == FinalizedIndexer(AddedAll(NewIndexer, docs))

\* ------------------------------------------------------------ rationals
RInt(n) == [num |-> n, den |-> 1]
RAdd(x, y) == Rat(x.num * y.den + y.num * x.den, x.den * y.den)
RSub(x, y) == Rat(x.num * y.den - y.num * x.den, x.den * y.den)
RMul(x, y) == Rat(x.num * y.num, x.den * y.den)
\* x / y, y > 0
RDiv(x, y) == Rat(x.num * y.den, x.den * y.num)

\* ---------------------------------------------------------- SearchEngine
\* defaults of search_bm25 and search_lm_dirichlet
K1 == [num |-> 6, den |-> 5]
B == [num |-> 3, den |-> 4]
Mu == 2000

\* Indexer.get_doc_count_for_term
GetDocCountForTerm(term) == Len(DictGet(inverted_index, term, EmptyDict))

\* Indexer.get_term_frequency
GetTermFrequency(term, doc_id) ==
    DictGet(DictGet(inverted_index, term, EmptyDict), doc_id, 0)

\* Indexer.get_docs_for_term
GetDocsForTerm(term) == DictGet(inverted_index, term, EmptyDict)

\* self.inverted_index[term] on the defaultdict: an absent term gets a default entry
IndexAfterSubscript(idx, term) ==
    IF DictHas(idx, term) THEN idx ELSE Append(idx, <<term, EmptyDict>>)

\* self.inverted_index.get(term, {}): the lookup leaves the defaultdict as it is
IndexAfterGet(idx, term) == idx

\* the accessors as calls of their own: what they leave behind
CallGetDocCountForTerm(term) ==
    /\ inverted_index' = IndexAfterGet(inverted_index, term)
    /\ UNCHANGED <<document_lengths, avg_doc_length, doc_count,
                   document_vectors, document_norms>>
    /\ ret' = Call("get_doc_count_for_term", <<term>>)
    /\ UNCHANGED history

CallGetTermFrequency(term, doc_id) ==
    /\ inverted_index' = IndexAfterGet(inverted_index, term)
    /\ UNCHANGED <<document_lengths, avg_doc_length, doc_count,
                   document_vectors, document_norms>>
    /\ ret' = Call("get_term_frequency", <<term, doc_id>>)
    /\ UNCHANGED history

CallGetDocsForTerm(term) ==
    /\ inverted_index' = IndexAfterGet(inverted_index, term)
    /\ UNCHANGED <<document_lengths, avg_doc_length, doc_count,
                   document_vectors, document_norms>>
    /\ ret' = Call("get_docs_for_term", <<term>>)
    /\ UNCHANGED history

AccessorOps == {"get_doc_count_for_term", "get_term_frequency", "get_docs_for_term"}

\* what the accessor called last returns
AccessorValue ==
    IF ret.op = "get_doc_count_for_term" THEN GetDocCountForTerm(ret.args[1])
    ELSE IF ret.op = "get_term_frequency" THEN GetTermFrequency(ret.args[1], ret.args[2])
    ELSE GetDocsForTerm(ret.args[1])

\* list.count
Count(seq, x) == Cardinality({i \in 1..Len(seq) : seq[i] = x})

\* sorted(scores.items(), key=lambda x: x[1], reverse=True): stable, so equal
\* scores keep the order of scores.items()
RECURSIVE SortedScores(_)
SortedScores(items) ==
    IF items = <<>> THEN <<>>
    ELSE LET s == SortedScores(SubSeq(items, 1, Len(items) - 1))
             x == items[Len(items)]
             p == Cardinality({i \in 1..Len(s) : s[i][2] >= x[2]})
         IN  SubSeq(s, 1, p) \o <<x>> \o SubSeq(s, p + 1, Len(s))

\* a slice that keeps one entry too many
TopSliceOffByOne(s, top_k) == SubSeq(s, 1, IF top_k + 1 < Len(s) THEN top_k + 1 ELSE Len(s))

\* sorted_scores[:top_k]
TopSlice(s, top_k) ==
    IF top_k >= 0
    THEN SubSeq(s, 1, IF top_k < Len(s) THEN top_k ELSE Len(s))
    ELSE SubSeq(s, 1, IF Len(s) + top_k > 0 THEN Len(s) + top_k ELSE 0)

\* what a ranking function returns: the scores dict it built, and the list
Ranked(r, top_k) ==
    [status |-> r.status, scores |-> r.scores,
     list |-> IF r.status = "ok" THEN TopSlice(SortedScores(r.scores), top_k)
              ELSE <<>>]

\* the query vector of search_vsm, after the first k query terms
RECURSIVE QueryVector(_, _)
QueryVector(query_terms, k) ==
    IF k = 0 THEN [status |-> "ok", vector |-> EmptyDict]
    ELSE LET rest == QueryVector(query_terms, k - 1)
             term == query_terms[k]
             tf == Count(query_terms, term)
             df == GetDocCountForTerm(term)
         IN  IF rest.status # "ok" \/ ~DictHas(inverted_index, term) THEN rest
             ELSE IF df = 0 THEN [status |-> "ZeroDivisionError", vector |-> EmptyDict]
             ELSE IF doc_count <= 0 THEN [status |-> "ValueError", vector |-> EmptyDict]
             ELSE [status |-> "ok",
                   vector |-> DictPut(rest.vector, term,
                                      FMul(One + Ln(tf, 1), Ln(doc_count, df)))]

RECURSIVE DotProduct(_, _)
DotProduct(query_vector, doc_vector) ==
    IF query_vector = <<>> THEN 0
    ELSE LET term == query_vector[Len(query_vector)][1]
             weight == query_vector[Len(query_vector)][2]
             rest == DotProduct(SubSeq(query_vector, 1, Len(query_vector) - 1),
                                doc_vector)
         IN  IF DictHas(doc_vector, term)
             THEN rest + FMul(weight, DictGet(doc_vector, term, 0))
             ELSE rest

\* the cosine similarity of one document
VsmScore(query_vector, query_norm, doc_id, doc_vector) ==
    LET dot_product == DotProduct(query_vector, doc_vector)
        doc_norm == DictGet(document_norms, doc_id, 0)
    IN  IF query_norm = 0 \/ doc_norm = 0 THEN 0
        ELSE FDiv(dot_product, FMul(query_norm, doc_norm))

\* for doc_id, doc_vector in self.indexer.document_vectors.items()
VsmScores(query_vector) ==
    LET query_norm == Norm(query_vector)
    IN  [i \in 1..Len(document_vectors) |->
            <<document_vectors[i][1],
              VsmScore(query_vector, query_norm,
                       document_vectors[i][1], document_vectors[i][2])>>]

SearchVsmResult(query_terms) ==
    LET q == QueryVector(query_terms, Len(query_terms))
    IN  IF q.status # "ok" THEN [status |-> q.status, scores |-> EmptyDict]
        ELSE [status |-> "ok", scores |-> VsmScores(q.vector)]

\* idf = math.log((n - df + 0.5) / (df + 0.5) + 1.0)
Bm25IdfArg(n, df) == RAdd(RDiv(Rat(2 * (n - df) + 1, 2), Rat(2 * df + 1, 2)), RInt(1))

\* numerator / denominator of the BM25 formula, avg_doc_length # 0
Bm25Fraction(tf, doc_length) ==
    LET numerator == RMul(RInt(tf), RAdd(K1, RInt(1)))
        denominator ==
            RAdd(RInt(tf),
                 RMul(K1, RAdd(RSub(RInt(1), B),
                               RDiv(RMul(B, RInt(doc_length)), avg_doc_length))))
    IN  RDiv(numerator, denominator)

\* for doc_id, tf in self.indexer.get_docs_for_term(term).items()
RECURSIVE Bm25Postings(_, _, _)
Bm25Postings(acc, idf, posting) ==
    IF posting = <<>> \/ acc.status # "ok" THEN acc
    ELSE LET doc_id == posting[1][1]
             tf == posting[1][2]
             doc_length == DictGet(document_lengths, doc_id, 0)
         IN  IF avg_doc_length.num = 0
             THEN [status |-> "ZeroDivisionError", scores |-> EmptyDict]
             ELSE LET f == Bm25Fraction(tf, doc_length)
                  IN  Bm25Postings(
                          [status |-> "ok",
                           scores |-> DictPut(acc.scores, doc_id,
                                              DictGet(acc.scores, doc_id, 0)
                                              + FMulRat(idf, f.num, f.den))],
                          idf, Tail(posting))

\* for term in query_terms
RECURSIVE Bm25Terms(_, _)
Bm25Terms(acc, query_terms) ==
    IF query_terms = <<>> \/ acc.status # "ok" THEN acc
    ELSE LET term == query_terms[1]
             arg == Bm25IdfArg(doc_count, GetDocCountForTerm(term))
         IN  IF ~DictHas(inverted_index, term) THEN Bm25Terms(acc, Tail(query_terms))
             ELSE IF arg.num <= 0 THEN [status |-> "ValueError", scores |-> EmptyDict]
             ELSE Bm25Terms(Bm25Postings(acc, Ln(arg.num, arg.den), GetDocsForTerm(term)),
                            Tail(query_terms))

SearchBm25Result(query_terms) ==
    Bm25Terms([status |-> "ok", scores |-> EmptyDict], query_terms)

\* collection_prob[term], total_terms # 0
CollectionProb(term, total_terms) ==
    IF DictHas(inverted_index, term)
    THEN Rat(SumValues(DictGet(inverted_index, term, EmptyDict)), total_terms)
    ELSE Rat(1, total_terms)

\* the score of one document: for term in query_terms
RECURSIVE LmScore(_, _, _, _)
LmScore(query_terms, doc_id, doc_length, total_terms) ==
    IF query_terms = <<>> THEN 0
    ELSE LET term == query_terms[Len(query_terms)]
             rest == LmScore(SubSeq(query_terms, 1, Len(query_terms) - 1),
                             doc_id, doc_length, total_terms)
             tf == GetTermFrequency(term, doc_id)
             p_term_given_doc ==
                 RDiv(RAdd(RInt(tf), RMul(RInt(Mu), CollectionProb(term, total_terms))),
                      RInt(doc_length + Mu))
         IN  IF p_term_given_doc.num > 0
             THEN rest + Ln(p_term_given_doc.num, p_term_given_doc.den)
             ELSE rest - 100 * One

SearchLmResult(query_terms) ==
    LET total_terms == SumValues(document_lengths)
    IN  IF query_terms # <<>> /\ total_terms = 0
        THEN [status |-> "ZeroDivisionError", scores |-> EmptyDict]
        ELSE [status |-> "ok",
              scores |-> [i \in 1..Len(document_lengths) |->
                             <<document_lengths[i][1],
                               LmScore(query_terms, document_lengths[i][1],
                                       document_lengths[i][2], total_terms)>>]]

\* A ranking function writes no field of the index: the action records the
\* call, and Outcome is what the call returns on the index it ran on.
SearchVsm(query_terms, top_k) ==
    /\ ret' = Call("search_vsm", <<query_terms, top_k>>)
    /\ UNCHANGED <<index, history>>

SearchBm25(query_terms, top_k) ==
    /\ ret' = Call("search_bm25", <<query_terms, top_k>>)
    /\ UNCHANGED <<index, history>>

\* search_lm_dirichlet asks get_term_frequency for every query term, present
\* or not, once it has a document to score
RECURSIVE IndexAfterLookups(_, _)
IndexAfterLookups(idx, terms) ==
    IF terms = <<>> THEN idx
    ELSE IndexAfterLookups(IndexAfterGet(idx, terms[1]), Tail(terms))

SearchLmDirichlet(query_terms, top_k) ==
    /\ inverted_index' =
           IF SumValues(document_lengths) = 0 THEN inverted_index
           ELSE IndexAfterLookups(inverted_index, query_terms)
    /\ UNCHANGED <<document_lengths, avg_doc_length, doc_count,
                   document_vectors, document_norms>>
    /\ ret' = Call("search_lm_dirichlet", <<query_terms, top_k>>)
    /\ UNCHANGED history

SearchOps == {"search_vsm", "search_bm25", "search_lm_dirichlet"}

Outcome ==
    IF ret.op = "search_vsm" THEN Ranked(SearchVsmResult(ret.args[1]), ret.args[2])
    ELSE IF ret.op = "search_bm25" THEN Ranked(SearchBm25Result(ret.args[1]), ret.args[2])
    ELSE IF ret.op = "search_lm_dirichlet" THEN Ranked(SearchLmResult(ret.args[1]), ret.args[2])
    ELSE [status |-> "ok", scores |-> EmptyDict, list |-> <<>>]

\* The methods called in any order by a client of the two classes; the driver
\* is not running.
NoDriver ==
    /\ pc = "none"
    /\ documents = <<>>
    /\ queries = <<>>
    /\ model_pos = 0
    /\ query_pos = 0

Add ==
    /\ \E doc_id \in DocIds, tokens \in TokenSeqs : AddDocument(doc_id, tokens)
    /\ UNCHANGED driver
Finalize ==
    /\ FinalizeIndex
    /\ UNCHANGED driver
Vsm ==
    /\ \E query_terms \in Queries, top_k \in TopKs : SearchVsm(query_terms, top_k)
    /\ UNCHANGED driver
Bm25 ==
    /\ \E query_terms \in Queries, top_k \in TopKs : SearchBm25(query_terms, top_k)
    /\ UNCHANGED driver
Lm ==
    /\ \E query_terms \in Queries, top_k \in TopKs : SearchLmDirichlet(query_terms, top_k)
    /\ UNCHANGED driver
DocCountForTerm ==
    /\ \E term \in Terms : CallGetDocCountForTerm(term)
    /\ UNCHANGED driver
TermFrequency ==
    /\ \E term \in Terms, doc_id \in DocIds : CallGetTermFrequency(term, doc_id)
    /\ UNCHANGED driver
DocsForTerm ==
    /\ \E term \in Terms : CallGetDocsForTerm(term)
    /\ UNCHANGED driver

Next ==
    Add \/ Finalize \/ Vsm \/ Bm25 \/ Lm \/ DocCountForTerm \/ TermFrequency \/ DocsForTerm

\* a new Indexer, and no driver
ClientInit == Init /\ NoDriver

Spec == ClientInit /\ [][Next]_vars

\* ------------------------------------------------------------------ main
\* top_k=100, the default main() calls the ranking functions with
DefaultTopK == 100

\* models: the ranking functions in the order main() runs them
Models == <<"search_vsm", "search_bm25", "search_lm_dirichlet">>

\* what CranfieldParser hands to main(): documents as <<doc_id, tokens of text>>
\* and queries as the tokens of their text
DocumentLists == SeqsUpTo(DocIds \X TokenSeqs, MaxAdds)
QueryLists == SeqsUpTo(Queries, MaxQueries)

MainInit ==
    /\ Init
    /\ pc = "index"
    /\ documents \in DocumentLists
    /\ queries \in QueryLists
    /\ model_pos = 1
    /\ query_pos = 1

\* for doc in documents: indexer.add_document(doc.doc_id, doc.text)
MainAddDocument ==
    /\ pc = "index"
    /\ documents # <<>>
    /\ AddDocument(documents[1][1], documents[1][2])
    /\ documents' = Tail(documents)
    /\ UNCHANGED <<pc, queries, model_pos, query_pos>>

\* a driver that finalizes only an index it has added a document to
MainFinalizeIfIndexed ==
    /\ pc = "index"
    /\ documents = <<>>
    /\ IF add_calls = 0 THEN UNCHANGED <<index, ret, history>> ELSE FinalizeIndex
    /\ pc' = "search"
    /\ UNCHANGED <<documents, queries, model_pos, query_pos>>

\* indexer.finalize_index(), after the loop
MainFinalizeIndex ==
    /\ pc = "index"
    /\ documents = <<>>
    /\ FinalizeIndex
    /\ pc' = "search"
    /\ UNCHANGED <<documents, queries, model_pos, query_pos>>

\* whether the call returns or raises
SearchStatus(op, query_terms) ==
    IF op = "search_vsm" THEN SearchVsmResult(query_terms).status
    ELSE IF op = "search_bm25" THEN SearchBm25Result(query_terms).status
    ELSE SearchLmResult(query_terms).status

\* results[query.query_id] = search_function(query.text); an exception ends main()
MainSearch ==
    /\ pc = "search"
    /\ model_pos <= Len(Models)
    /\ query_pos <= Len(queries)
    /\ LET op == Models[model_pos]
           query_terms == queries[query_pos]
       IN  /\ \/ op = "search_vsm" /\ SearchVsm(query_terms, DefaultTopK)
              \/ op = "search_bm25" /\ SearchBm25(query_terms, DefaultTopK)
              \/ op = "search_lm_dirichlet" /\ SearchLmDirichlet(query_terms, DefaultTopK)
           /\ IF SearchStatus(op, query_terms) = "ok"
              THEN pc' = pc /\ query_pos' = query_pos + 1
              ELSE pc' = "raised" /\ query_pos' = query_pos
    /\ UNCHANGED <<documents, queries, model_pos>>

\* TrecWriter.write_results(...), then the next model or the end of main()
MainWriteResults ==
    /\ pc = "search"
    /\ model_pos <= Len(Models)
    /\ query_pos > Len(queries)
    /\ IF model_pos < Len(Models)
       THEN pc' = pc /\ model_pos' = model_pos + 1 /\ query_pos' = 1
       ELSE pc' = "done" /\ model_pos' = model_pos /\ query_pos' = query_pos
    /\ UNCHANGED <<index, ret, history, documents, queries>>

MainNext == MainAddDocument \/ MainFinalizeIndex \/ MainSearch \/ MainWriteResults

MainSpec == MainInit /\ [][MainNext]_vars

\* ---------------------------------------------------------------- claims
IsSearch == ret.op \in SearchOps
QueryTerms == ret.args[1]
TopK == ret.args[2]

\* Building: finalize_index has not run.  Finalized: it has, after every add.
Building == finalize_calls = 0
Finalized == finalized_adds = add_calls

Range(seq) == {seq[i] : i \in 1..Len(seq)}

\* the documents of the corpus and their content: the tokens last added for the id
Corpus == DictKeySet(last_tokens)
TokensOf(d) == DictGet(last_tokens, d, <<>>)
SharesTerm(d, query_terms) == Range(TokensOf(d)) \cap Range(query_terms) # {}

IdRank(d) == CHOOSE i \in 1..Len(DocIdOrder) : DocIdOrder[i] = d

\* C1: a ranking query issued in the Building state is rejected with an error
\* instead of returning a ranked list.
C1_QueryWhileBuildingRejected ==
    (IsSearch /\ Building) => Outcome.status # "ok"

\* C2: for every term t and document d, get_term_frequency(t, d) is the number
\* of occurrences of t in the token sequence most recently added for d (0 when
\* t does not occur in it, or d was never added).
C2_TermFrequencyIsLatestCount ==
    \A t \in Terms, d \in DocIds : GetTermFrequency(t, d) = Count(TokensOf(d), t)

\* C3: doc_count equals the number of add_document calls made so far, repeated
\* doc_ids included.
C3_DocCountCountsCalls == doc_count = add_calls

C3_Witness ==
    /\ ret.op = "add_document"
    /\ add_calls = 2
    /\ doc_count = 2
    /\ Len(document_lengths) = 1

\* C4: when finalize_index returns, avg_doc_length is the arithmetic mean of the
\* lengths of all added documents if doc_count > 0, and 0 if no document was
\* added.  The mean is taken either way the added documents can be counted: per
\* add_document call (the sum of the added lengths over the calls) or per doc_id
\* (the sum of the stored lengths over the ids); the claim asks for one of them.
C4_AvgIsMeanOfAddedLengths ==
    ret.op = "finalize_index" =>
        IF doc_count > 0
        THEN \/ avg_doc_length.num * add_calls = added_length * avg_doc_length.den
             \/ avg_doc_length.num * Len(document_lengths)
                    = SumValues(document_lengths) * avg_doc_length.den
        ELSE avg_doc_length.num = 0

\* C5: on a finalized index (an empty corpus and a corpus of empty documents
\* included) every ranking function returns a list for every query: none raises
\* an arithmetic error.
C5_RankingNeverRaises ==
    (IsSearch /\ Finalized) => Outcome.status = "ok"

\* C6: the list a ranking function returns has at most top_k entries, each a
\* scored document with its score, in non-increasing order of score, and no
\* scored document left out of it has a score above its last entry's.
C6_TopKSortedTruncated ==
    IsSearch =>
        LET o == Outcome
            l == o.list
            s == o.scores
        IN  o.status = "ok" =>
                /\ Len(l) <= TopK
                /\ \A i \in 1..Len(l) : DictHas(s, l[i][1]) /\ DictGet(s, l[i][1], 0) = l[i][2]
                /\ \A i \in 1..(Len(l) - 1) : l[i][2] >= l[i + 1][2]
                /\ \A j \in 1..Len(s) :
                       (l # <<>> /\ ~DictHas(l, s[j][1])) => s[j][2] <= l[Len(l)][2]

\* a truncating call on two scored documents that the sort had to swap
C6_Witness ==
    /\ IsSearch
    /\ TopK = 1
    /\ LET o == Outcome
       IN  /\ o.status = "ok"
           /\ Len(o.scores) = 2
           /\ o.scores[1][2] < o.scores[2][2]
           /\ o.list = <<o.scores[2]>>

\* C7: in the list a ranking function returns on a finalized index, two
\* documents with equal scores appear in ascending doc_id order.
C7_TiesAscendingDocId ==
    (IsSearch /\ Finalized) =>
        LET l == Outcome.list
        IN  \A i, j \in 1..Len(l) :
                (i < j /\ l[i][2] = l[j][2]) => IdRank(l[i][1]) < IdRank(l[j][1])

\* C8: the documents search_bm25 scores are exactly the documents containing at
\* least one query term: a document sharing no term with the query gets no entry.
C8_Bm25ScoresExactlySharingDocs ==
    ret.op = "search_bm25" =>
        LET o == Outcome
        IN  o.status = "ok" =>
                DictKeySet(o.scores) = {d \in Corpus : SharesTerm(d, QueryTerms)}

\* C9: search_lm_dirichlet on a finalized index with at least one document
\* scores every document of the corpus for every query, and with top_k at least
\* the number of documents the returned list holds each doc_id exactly once.
C9_LmScoresEveryDocument ==
    (ret.op = "search_lm_dirichlet" /\ Finalized /\ Corpus # {}) =>
        LET o == Outcome
        IN  /\ o.status = "ok"
            /\ DictKeySet(o.scores) = Corpus
            /\ TopK >= Cardinality(Corpus) =>
                   /\ Len(o.list) = Cardinality(Corpus)
                   /\ DictKeySet(o.list) = Corpus

\* C10: search_vsm on a finalized index scores every document that has a
\* vector, and gives score exactly 0 to a document sharing no term with the
\* query, to a document whose norm is 0, and to every document when the query
\* vector's norm is 0.
C10_VsmScoresEveryVectorZeroCases ==
    (ret.op = "search_vsm" /\ Finalized) =>
        LET o == Outcome
            q == QueryVector(QueryTerms, Len(QueryTerms))
        IN  /\ o.status = "ok"
            /\ \A d \in DictKeySet(document_vectors) :
                   /\ DictHas(o.scores, d)
                   /\ (\/ ~SharesTerm(d, QueryTerms)
                       \/ DictGet(document_norms, d, 0) = 0
                       \/ Norm(q.vector) = 0) => DictGet(o.scores, d, 1) = 0

\* ------------------------------------------- where the failing claims hold
\* No doc_id was added twice.
DistinctIds == add_calls = Len(document_lengths)

\* C2, C4, C8 and C10 fail only on a repeated doc_id.
C2_HoldsForDistinctIds == DistinctIds => C2_TermFrequencyIsLatestCount
C4_HoldsForDistinctIds == DistinctIds => C4_AvgIsMeanOfAddedLengths
C8_HoldsForDistinctIds == DistinctIds => C8_Bm25ScoresExactlySharingDocs
C10_HoldsForDistinctIds == DistinctIds => C10_VsmScoresEveryVectorZeroCases

\* What finalize_index computes in every case: the stored lengths' total over
\* the number of calls.
C4_AvgIsStoredTotalOverCalls ==
    (ret.op = "finalize_index" /\ doc_count > 0) =>
        avg_doc_length.num * doc_count = SumValues(document_lengths) * avg_doc_length.den

\* C5 and C9 fail only where search_lm_dirichlet divides by total_terms = 0
\* (and, for search_bm25, by an avg_doc_length a repeated doc_id made 0).
C5_OnlyLmAndRepeatedIdsRaise ==
    (IsSearch /\ Finalized /\ Outcome.status # "ok") =>
        \/ ret.op = "search_lm_dirichlet" /\ SumValues(document_lengths) = 0
        \/ ret.op = "search_bm25" /\ ~DistinctIds

C9_HoldsWhenLmReturns ==
    (ret.op = "search_lm_dirichlet" /\ Outcome.status = "ok") =>
        /\ DictKeySet(Outcome.scores) = Corpus
        /\ TopK >= Cardinality(Corpus) =>
               /\ Len(Outcome.list) = Cardinality(Corpus)
               /\ DictKeySet(Outcome.list) = Corpus

\* ------------------------------ frame, lifecycle, build order, driver, bounds
ReadOps == SearchOps \cup AccessorOps

\* the accessor called last asked about a term without postings, or about a
\* doc_id that is not in the term's postings
AskedAbsent ==
    /\ ret.op \in AccessorOps
    /\ \/ ~DictHas(inverted_index, ret.args[1])
       \/ /\ ret.op = "get_term_frequency"
          /\ ~DictHas(GetDocsForTerm(ret.args[1]), ret.args[2])

\* C11: a call of a read accessor or of a ranking function leaves every field
\* of the index as it was (the key set of inverted_index included), also when it
\* asks about an absent term or doc_id; the accessor then returns 0, or an empty
\* postings map, and inserts no default entry.
C11_ReadsLeaveIndexUnchanged ==
    [][ret'.op \in ReadOps =>
           /\ index' = index
           /\ AskedAbsent' =>
                  AccessorValue' = IF ret'.op = "get_docs_for_term" THEN EmptyDict ELSE 0]_vars

\* an accessor asked about a term that a non-empty index does not hold
C11_Witness ==
    /\ ret.op = "get_docs_for_term"
    /\ inverted_index # EmptyDict
    /\ ~DictHas(inverted_index, ret.args[1])
    /\ AccessorValue = EmptyDict

\* C12: once finalize_index has completed, an add_document call changes no
\* field of the index: postings, document lengths, doc_count, avg_doc_length,
\* document vectors and norms stay as finalization left them.
C12_AddAfterFinalizeChangesNothing ==
    [][(finalize_calls > 0 /\ ret'.op = "add_document" /\ add_calls' = add_calls + 1)
           => index' = index]_vars

\* What does hold: with no add_document call after the last finalize_index, the
\* statistics and vectors are those of the postings and lengths queries read.
C12_StatisticsAgreeWhenNoLaterAdd ==
    (Finalized /\ doc_count > 0) =>
        /\ avg_doc_length = AvgDocLength
        /\ DictKeySet(document_vectors) = DictKeySet(document_lengths)
        /\ DictKeySet(document_norms) = DictKeySet(document_lengths)
        /\ \A i \in 1..Len(document_vectors) :
               document_vectors[i][2] =
                   BuildVector(inverted_index, Idfs(inverted_index, doc_count),
                               document_vectors[i][1])

\* C13: a finalize_index call on an index that finalize_index has already
\* completed on fails with an error instead of returning normally.
C13_SecondFinalizeFails ==
    [][(finalize_calls > 0 /\ finalize_calls' = finalize_calls + 1)
           => Outcome'.status # "ok"]_vars

\* What the second call does instead: it returns, having recomputed the average
\* and the vectors from the postings as they are then.
C13_SecondFinalizeRecomputes ==
    (ret.op = "finalize_index" /\ finalize_calls > 1 /\ doc_count > 0) =>
        /\ Outcome.status = "ok"
        /\ avg_doc_length = AvgDocLength
        /\ DictKeySet(document_vectors) = DictKeySet(document_lengths)

\* a dict as the mapping it is (dict equality ignores insertion order), and a
\* dict of dicts likewise
AsMap(d) == [k \in DictKeySet(d) |-> DictGet(d, k, 0)]
AsMapOfMaps(d) == [k \in DictKeySet(d) |-> AsMap(DictGet(d, k, EmptyDict))]

\* the documents of the corpus in ascending doc_id order
RECURSIVE AscendingDocs(_)
AscendingDocs(i) ==
    IF i = 0 THEN <<>>
    ELSE AscendingDocs(i - 1)
             \o (IF DictHas(last_tokens, DocIdOrder[i])
                 THEN <<<<DocIdOrder[i], TokensOf(DocIdOrder[i])>>>>
                 ELSE <<>>)

AscendingBuild == BuildIndex(AscendingDocs(Len(DocIdOrder)))

\* C14: an index built and finalized from documents with pairwise distinct
\* doc_ids, added in any order, has the postings, document lengths, doc_count,
\* avg_doc_length and document vectors of the index built from the same
\* documents in ascending doc_id order: the order of the add_document calls
\* does not show in them.
C14_BuildOrderIrrelevant ==
    (ret.op = "finalize_index" /\ DistinctIds) =>
        LET b == AscendingBuild
        IN  /\ AsMapOfMaps(inverted_index) = AsMapOfMaps(b.inverted_index)
            /\ AsMap(document_lengths) = AsMap(b.document_lengths)
            /\ doc_count = b.doc_count
            /\ avg_doc_length = b.avg_doc_length
            /\ AsMapOfMaps(document_vectors) = AsMapOfMaps(b.document_vectors)

\* one build of two documents sharing a term, added in descending doc_id order,
\* whose terms entered the index in another order than in the ascending build
C14_Witness ==
    /\ ret.op = "finalize_index"
    /\ finalize_calls = 1
    /\ DictKeys(document_lengths) = <<"d2", "d1">>
    /\ Len(inverted_index) = 2
    /\ DictKeys(inverted_index) # DictKeys(AscendingBuild.inverted_index)
    /\ \E i \in 1..Len(inverted_index) : Len(inverted_index[i][2]) = 2

\* C15: in every run of main(), finalize_index is called once the document list
\* is used up and no add_document call follows it, it is called at most once
\* and exactly once before main() goes on to the queries, and every call of a
\* ranking function comes after it; also when the document list is empty.
C15_MainFinalizesOnceBetweenAddsAndQueries ==
    /\ finalize_calls <= 1
    /\ finalize_calls = 1 => (documents = <<>> /\ finalized_adds = add_calls)
    /\ pc \in {"search", "done", "raised"} => finalize_calls = 1
    /\ IsSearch => finalize_calls = 1

\* a ranking call of a run whose document list was empty
C15_Witness ==
    /\ pc = "search"
    /\ add_calls = 0
    /\ finalize_calls = 1
    /\ ret.op = "search_bm25"

\* C16: every term that is a key of the inverted index has a document
\* frequency df with 1 <= df <= doc_count, and every stored term frequency is
\* at least 1; so the IDF ln(doc_count / df) of finalize_index and search_vsm
\* divides by no zero and is non-negative, and the BM25 idf argument
\* (N - df + 0.5) / (df + 0.5) + 1 is at least 1.
C16_DfAndTfBounds ==
    \A i \in 1..Len(inverted_index) :
        LET posting == inverted_index[i][2]
            df == GetDocCountForTerm(inverted_index[i][1])
            arg == Bm25IdfArg(doc_count, df)
        IN  /\ df = Len(posting)
            /\ 1 <= df
            /\ df <= doc_count
            /\ \A j \in 1..Len(posting) : posting[j][2] >= 1
            /\ Ln(doc_count, df) >= 0
            /\ arg.den > 0
            /\ arg.num >= arg.den

\* after two add_document calls: a term of both documents (df = doc_count, IDF 0)
\* beside a term of one document
C16_Witness ==
    /\ ret.op = "add_document"
    /\ doc_count = 2
    /\ \E i \in 1..Len(inverted_index) : Len(inverted_index[i][2]) = doc_count
    /\ \E i \in 1..Len(inverted_index) :
           /\ Len(inverted_index[i][2]) = 1
           /\ Ln(doc_count, 1) > 0
====
